---- MODULE Spec2Model ----
(***************************************************************************)
(* Model of the edunet backend (src/index.js): accounts, teacher profiles  *)
(* and enrollments kept in document collections, and the request handlers  *)
(* that read and write them.  Every handler is split at its awaits: one    *)
(* action is one storage call together with the synchronous code that      *)
(* follows it up to the next await.  Reads that follow a handler's last    *)
(* write (populate, res.json) are part of that write's action.             *)
(* createdAt / updatedAt are wall-clock values and are not modelled, nor   *)
(* is the version key __v of the stored documents.                         *)
(***************************************************************************)
EXTENDS Integers, Sequences, FiniteSets, TLC

\* ---------------------------------------------------------------- bounds
MaxUsers == 2
MaxReq == 2
MaxOps == 4
MaxCourses == 2

UserIds == 1 .. MaxUsers
Reqs == 1 .. MaxReq
CourseIds == 1 .. MaxCourses

\* ------------------------------------------------------- JavaScript values
Undef == [t |-> "undefined"]
Null == [t |-> "null"]
Str(s) == [t |-> "string", s |-> s]
Num(n) == [t |-> "number", n |-> n]
Arr(q) == [t |-> "array", a |-> q]
Obj(o) == [t |-> "object", o |-> o]

\* a nullish test (??): only undefined and null count as missing
TruthyMutantNullish(v) == v.t \notin {"undefined", "null"}

\* JavaScript truthiness: undefined, null, '' and 0 are falsy; '0', [] and {} are truthy
Truthy(v) ==
  CASE v.t = "undefined" -> FALSE
    [] v.t = "null" -> FALSE
    [] v.t = "string" -> v.s # ""
    [] v.t = "number" -> v.n # 0
    [] OTHER -> TRUE

\* a || b
Or(a, b) == IF Truthy(a) THEN a ELSE b

Digits == <<"0", "1", "2", "3", "4", "5", "6", "7", "8", "9">>

\* Mongoose cast of a value assigned to a path of type String
CastString(v) == IF v.t = "number" THEN Str(Digits[v.n + 1]) ELSE v

\* ------------------------------------------------- TeacherProfile schema
LinkFields == {"linkedin", "github", "twitter", "website"}
StringFields == {"teacherName", "email", "bio", "specialization", "experience",
                 "education", "avatar"}
ArrayFields == {"certifications", "expertise"}
BodyFields == StringFields \cup ArrayFields \cup {"socialLinks"}
RequiredFields == {"teacherName", "email"}

\* schema defaults (src/models/TeacherProfile.js): none for the required paths
SchemaDefault(f) ==
  CASE f \in RequiredFields -> Undef
    [] f = "experience" -> Str("0")
    [] f \in StringFields -> Str("")
    [] f \in ArrayFields -> Arr(<<>>)
    [] OTHER -> Undef

\* a socialLinks object given to the nested path: every sub-path is set from the
\* object, a missing one reads back as its default ''
CastLinks(v) ==
  [k \in LinkFields |->
     IF v.t = "object" /\ k \in DOMAIN v.o /\ v.o[k].t = "string" THEN v.o[k] ELSE Str("")]

CastField(f, v) ==
  IF f = "socialLinks" THEN CastLinks(v)
  ELSE IF v.t = "undefined" THEN SchemaDefault(f)
  ELSE IF f \in StringFields THEN CastString(v)
  ELSE v

\* new TeacherProfile({userId, ...given}): the in-memory document, not yet saved
NewProfile(userId, given) ==
  [f \in BodyFields |-> CastField(f, IF f \in DOMAIN given THEN given[f] ELSE Undef)]
    @@ [userId |-> userId, rating |-> 0, totalRatings |-> 0, isNew |-> TRUE, id |-> 0]

\* the `required` validator of a String path rejects undefined, null and ''
RequiredOk(v) == v.t = "string" /\ v.s # ""

\* doc.validateSync() / the validation save() and insertMany() run first
Validate(doc) == \A f \in RequiredFields : RequiredOk(doc[f])

\* ------------------------------------------------------- request payloads
NoBody == [f \in BodyFields |-> Undef]
Body(given) == [f \in BodyFields |-> IF f \in DOMAIN given THEN given[f] ELSE Undef]

NoLinks == Obj([k \in LinkFields |-> Str("")])

\* socialLinks?.k
OptLink(v, k) == IF v.t = "object" /\ k \in DOMAIN v.o THEN v.o[k] ELSE Undef

\* ------------------------------------------ GET /api/teacherProfiles: default profile
\* new TeacherProfile({userId, bio: '', specialization: '', experience: 0, education: ''})
GetCreate(userId) ==
  NewProfile(userId, [bio |-> Str(""), specialization |-> Str(""),
                      experience |-> Num(0), education |-> Str("")])

\* ------------------------------------------ POST /api/teacherProfiles: build the document
PostCreate(user, body) ==
  NewProfile(user.id,
    [teacherName |-> Or(body.teacherName, Str(user.name)),
     email |-> Or(body.email, Str(user.email)),
     bio |-> Or(body.bio, Str("")),
     specialization |-> Or(body.specialization, Str("")),
     experience |-> Or(body.experience, Str("0")),
     education |-> Or(body.education, Str("")),
     avatar |-> Or(body.avatar, Str("")),
     certifications |-> Or(body.certifications, Arr(<<>>)),
     expertise |-> Or(body.expertise, Arr(<<>>)),
     socialLinks |-> Or(body.socialLinks, NoLinks)])

\* teacherProfile.socialLinks = socialLinks || teacherProfile.socialLinks
PostMergeLinks(doc, body) ==
  CastLinks(Or(body.socialLinks, Obj(doc.socialLinks)))

\* a full replace: a path the payload leaves out falls back to its default
MergeFieldMutantReplace(doc, body, f) ==
  IF f \in StringFields THEN CastString(Or(body[f], Str(""))) ELSE Or(body[f], Arr(<<>>))

\* teacherProfile.f = f || teacherProfile.f, for the scalar and array paths
MergeField(doc, body, f) ==
  IF f \in StringFields THEN CastString(Or(body[f], doc[f])) ELSE Or(body[f], doc[f])

PostMerge(doc, body) ==
  [f \in DOMAIN doc |->
     IF f = "socialLinks" THEN PostMergeLinks(doc, body)
     ELSE IF f \in BodyFields THEN MergeField(doc, body, f)
     ELSE doc[f]]

\* ------------------------------------------ PUT /api/teacherProfiles/:teacherId
PutCreate(teacherId, body) ==
  NewProfile(teacherId,
    [teacherName |-> Or(body.teacherName, Str("")),
     email |-> Or(body.email, Str("")),
     bio |-> Or(body.bio, Str("")),
     specialization |-> Or(body.specialization, Str("")),
     experience |-> Or(body.experience, Str("0")),
     education |-> Or(body.education, Str("")),
     avatar |-> Or(body.avatar, Str("")),
     certifications |-> Or(body.certifications, Arr(<<>>)),
     expertise |-> Or(body.expertise, Arr(<<>>)),
     socialLinks |-> Or(body.socialLinks, NoLinks)])

\* socialLinks: { k: socialLinks?.k || teacherProfile.socialLinks?.k || '' }
PutMergeLinks(doc, body) ==
  [k \in LinkFields |->
     CastString(Or(Or(OptLink(body.socialLinks, k), doc.socialLinks[k]), Str("")))]

PutMerge(doc, body) ==
  [f \in DOMAIN doc |->
     IF f = "socialLinks" THEN PutMergeLinks(doc, body)
     ELSE IF f \in BodyFields THEN MergeField(doc, body, f)
     ELSE doc[f]]

\* the paths Mongoose marks modified: those whose value differs from the loaded one
Modified(loaded, doc) == {f \in BodyFields : doc[f] # loaded[f]}

\* ------------------------------------------------------------------ state
VARIABLES
  users,        \* the User collection: a set of [id, email, name, role, password]
  nextUid,      \* the next fresh account _id
  tokens,       \* the bearer tokens issued so far: [userId, role] as signed
  profiles,     \* the TeacherProfile collection: a set of stored documents
  nextPid,      \* the next fresh profile _id
  enrollments,  \* the Enrollment collection, in insertion order
  enrollReplies, \* the answers POST /api/enrollments has sent: [userId, courseId, status]
  req,          \* the requests being handled, one record per connection
  ops           \* the number of requests received so far

vars == <<users, nextUid, tokens, profiles, nextPid, enrollments, enrollReplies, req, ops>>

Roles == {"student", "teacher", "admin"}
EmailList == <<"a@edu.net", "b@edu.net", "c@edu.net", "d@edu.net">>
NameList == <<"Ann", "Bob", "Cy", "Di">>
Emails == {EmailList[i] : i \in UserIds}
NameOf(email) == NameList[CHOOSE i \in UserIds : EmailList[i] = email]

\* the password every registration in the model sends, and the one a reset sends
FirstPassword == "pw1"
ResetPasswords == {"pw2"}

NoToken == [userId |-> 0, role |-> "none"]
NoArg == [email |-> Undef, name |-> Undef, role |-> Undef, password |-> Undef]

Idle ==
  [op |-> "idle", pc |-> "idle", tok |-> NoToken, target |-> 0, body |-> NoBody,
   arg |-> NoArg, user |-> Null, loaded |-> Null, doc |-> Null, ids |-> {},
   status |-> 0, msg |-> "", solo |-> FALSE]

InFlight(r) == req[r].pc \notin {"idle", "done"}

\* isAdmin: req.user.role !== 'admin' -> 403; the role is the one signed into the token
IsAdminMutantAnyStaff(tok) == tok.role # "student"
IsAdmin(tok) == tok.role = "admin"

\* isTeacher: req.user.role !== 'teacher' -> 403
IsTeacher(tok) == tok.role = "teacher"

\* a request arrives and is given the first free connection r: it runs alone iff
\* nothing else is in flight
Arrive(r, fields) ==
  /\ ~InFlight(r)
  /\ \A q \in Reqs : q < r => InFlight(q)
  /\ ops < MaxOps
  /\ ops' = ops + 1
  /\ req' = [q \in Reqs |->
               IF q = r
               THEN fields @@ [solo |-> \A o \in Reqs \ {r} : ~InFlight(o)] @@ Idle
               ELSE [req[q] EXCEPT !.solo = FALSE]]

\* a request a middleware or an argument check answers before any storage call
Reject(r, op, tok, target, status, msg) ==
  Arrive(r, [op |-> op, pc |-> "done", tok |-> tok, target |-> target,
             status |-> status, msg |-> msg])

\* the handler moves on to its next await
Goto(r, pc, fields) == req' = [req EXCEPT ![r] = fields @@ [pc |-> pc] @@ req[r]]

\* res.status(status).json({ message }): the handler ends and its locals are dropped;
\* what stays is the request line (caller, target) and the answer.
\* For a 500 the message kept is the name of the error the catch block logs.
Respond(r, status, msg) ==
  req' = [req EXCEPT ![r] =
            [status |-> status, msg |-> msg, pc |-> "done", op |-> req[r].op,
             tok |-> req[r].tok, target |-> req[r].target, solo |-> req[r].solo] @@ Idle]

\* ------------------------------------------------------------ collections
UserById(id) == {u \in users : u.id = id}
Teachers == {u \in users : u.role = "teacher"}

ProfilesOf(userId) == {p \in profiles : p.userId = userId}

\* findOne: the first match in storage order, which is insertion order
First(docs) == CHOOSE p \in docs : \A q \in docs : p.id <= q.id

\* no index: nothing is a duplicate
DuplicateUserIdMutantNoIndex(userId) == FALSE

\* the unique index on TeacherProfile.userId
DuplicateUserId(userId) == ProfilesOf(userId) # {}

\* what doc.save() rejects with, "" when it succeeds
SaveError(doc) ==
  IF ~Validate(doc) THEN "ValidationError"
  ELSE IF doc.isNew THEN (IF DuplicateUserId(doc.userId) THEN "E11000" ELSE "")
  ELSE IF \E p \in profiles : p.id = doc.id THEN "" ELSE "DocumentNotFoundError"

\* the collection after a successful doc.save(): an insert, or a $set of the modified paths
Saved(loaded, doc) ==
  IF doc.isNew
  THEN profiles \cup {[doc EXCEPT !.isNew = FALSE, !.id = nextPid]}
  ELSE {IF p.id = doc.id
        THEN [f \in DOMAIN p |-> IF f \in Modified(loaded, doc) THEN doc[f] ELSE p[f]]
        ELSE p : p \in profiles}

\* await teacherProfile.save(), then populate and res.json; any rejection -> catch -> 500
SaveProfile(r) ==
  LET doc == req[r].doc
      e == SaveError(doc)
  IN /\ IF e = ""
        THEN /\ profiles' = Saved(req[r].loaded, doc)
             /\ nextPid' = IF doc.isNew THEN nextPid + 1 ELSE nextPid
             /\ Respond(r, 200, "")
        ELSE /\ UNCHANGED <<profiles, nextPid>>
             /\ Respond(r, 500, e)
     /\ UNCHANGED <<users, nextUid, tokens, enrollments, enrollReplies, ops>>

\* ------------------------------------- GET /api/teacherProfiles?teacherId=X
GetOneStart(r) ==
  /\ \E id \in UserIds : Arrive(r, [op |-> "getOne", pc |-> "findUser", target |-> id])
  /\ UNCHANGED <<users, nextUid, tokens, profiles, nextPid, enrollments, enrollReplies>>

\* the lookup without its role filter
TeacherLookupMutantAnyRole(id) == UserById(id)

\* User.findOne({ _id: teacherId, role: 'teacher' })
TeacherLookup(id) == {u \in UserById(id) : u.role = "teacher"}

GetOneFindUser(r) ==
  /\ req[r].op = "getOne" /\ req[r].pc = "findUser"
  /\ IF TeacherLookup(req[r].target) = {}
     THEN Respond(r, 404, "Teacher not found")
     ELSE Goto(r, "findProfile", [user |-> Null])
  /\ UNCHANGED <<users, nextUid, tokens, profiles, nextPid, enrollments, enrollReplies, ops>>

\* TeacherProfile.findOne({ userId: teacherId }); a hit is populated and returned
GetOneFindProfile(r) ==
  /\ req[r].op = "getOne" /\ req[r].pc = "findProfile"
  /\ IF ProfilesOf(req[r].target) # {}
     THEN Respond(r, 200, "")
     ELSE Goto(r, "save", [doc |-> GetCreate(req[r].target)])
  /\ UNCHANGED <<users, nextUid, tokens, profiles, nextPid, enrollments, enrollReplies, ops>>

GetOneSave(r) ==
  /\ req[r].op = "getOne" /\ req[r].pc = "save"
  /\ SaveProfile(r)

\* ------------------------------------------- GET /api/teacherProfiles (list)
GetListStart(r) ==
  /\ Arrive(r, [op |-> "getList", pc |-> "findTeachers"])
  /\ UNCHANGED <<users, nextUid, tokens, profiles, nextPid, enrollments, enrollReplies>>

\* User.find({ role: 'teacher' })
GetListFindTeachers(r) ==
  /\ req[r].op = "getList" /\ req[r].pc = "findTeachers"
  /\ Goto(r, "findProfiles", [ids |-> {u.id : u \in Teachers}])
  /\ UNCHANGED <<users, nextUid, tokens, profiles, nextPid, enrollments, enrollReplies, ops>>

\* TeacherProfile.find({ userId: { $in: teacherIds } }).populate('userId', ...), then the
\* set difference; profile.userId._id throws on a profile whose account is gone
GetListFindProfiles(r) ==
  /\ req[r].op = "getList" /\ req[r].pc = "findProfiles"
  /\ LET found == {p \in profiles : p.userId \in req[r].ids}
         missing == req[r].ids \ {p.userId : p \in found}
     IN IF \E p \in found : UserById(p.userId) = {}
        THEN Respond(r, 500, "TypeError")
        ELSE IF missing = {}
        THEN Respond(r, 200, "")
        ELSE Goto(r, "insertMany", [ids |-> missing])
  /\ UNCHANGED <<users, nextUid, tokens, profiles, nextPid, enrollments, enrollReplies, ops>>

\* the documents an ordered insertMany writes before it stops: all of them, or those
\* before the first duplicate key
Inserted(ids) ==
  LET dups == {i \in ids : DuplicateUserId(i)}
  IN IF dups = {} THEN ids ELSE {i \in ids : \A d \in dups : i < d}

Rank(i, ids) == Cardinality({j \in ids : j < i})

\* TeacherProfile.insertMany(newProfiles): every document is validated before any is
\* sent; then the re-fetch of all profiles and res.json
GetListInsertMany(r) ==
  /\ req[r].op = "getList" /\ req[r].pc = "insertMany"
  /\ LET ids == req[r].ids
         ins == Inserted(ids)
     IN IF \E i \in ids : ~Validate(GetCreate(i))
        THEN /\ UNCHANGED <<profiles, nextPid>>
             /\ Respond(r, 500, "ValidationError")
        ELSE /\ profiles' = profiles \cup
                  {[GetCreate(i) EXCEPT !.isNew = FALSE, !.id = nextPid + Rank(i, ins)] : i \in ins}
             /\ nextPid' = nextPid + Cardinality(ins)
             /\ IF ins = ids THEN Respond(r, 200, "") ELSE Respond(r, 500, "E11000")
  /\ UNCHANGED <<users, nextUid, tokens, enrollments, enrollReplies, ops>>

\* ------------------------------------------------ POST /api/teacherProfiles
\* authenticateToken, isTeacher
PostStart(r, bodies) ==
  /\ \E tok \in tokens, body \in bodies :
       IF ~IsTeacher(tok)
       THEN Reject(r, "post", tok, 0, 403, "Teacher access required")
       ELSE Arrive(r, [op |-> "post", pc |-> "findUser", tok |-> tok, body |-> body])
  /\ UNCHANGED <<users, nextUid, tokens, profiles, nextPid, enrollments, enrollReplies>>

\* User.findById(req.user.userId)
PostFindUser(r) ==
  /\ req[r].op = "post" /\ req[r].pc = "findUser"
  /\ IF UserById(req[r].tok.userId) = {}
     THEN Respond(r, 404, "User not found")
     ELSE Goto(r, "findProfile", [user |-> CHOOSE u \in UserById(req[r].tok.userId) : TRUE])
  /\ UNCHANGED <<users, nextUid, tokens, profiles, nextPid, enrollments, enrollReplies, ops>>

\* TeacherProfile.findOne({ userId }), the merge or the construction, validateSync()
PostFindProfile(r) ==
  /\ req[r].op = "post" /\ req[r].pc = "findProfile"
  /\ LET found == ProfilesOf(req[r].tok.userId)
         loaded == IF found = {} THEN Null ELSE First(found)
         doc == IF found = {} THEN PostCreate(req[r].user, req[r].body)
                ELSE PostMerge(loaded, req[r].body)
     IN IF ~Validate(doc)
        THEN Respond(r, 400, "Validation error")
        ELSE Goto(r, "save", [loaded |-> loaded, doc |-> doc])
  /\ UNCHANGED <<users, nextUid, tokens, profiles, nextPid, enrollments, enrollReplies, ops>>

PostSave(r) ==
  /\ req[r].op = "post" /\ req[r].pc = "save"
  /\ SaveProfile(r)

\* ------------------------------------- PUT /api/teacherProfiles/:teacherId
\* no ownership check
OwnProfileMutantAnyone(teacherId, tok) == TRUE

\* teacherId !== req.user.userId.toString(): a teacher may only update their own profile
OwnProfile(teacherId, tok) == teacherId = tok.userId

\* authenticateToken, isTeacher, then the ownership check
PutStart(r, bodies) ==
  /\ \E tok \in tokens, id \in UserIds, body \in bodies :
       IF ~IsTeacher(tok)
       THEN Reject(r, "put", tok, id, 403, "Teacher access required")
       ELSE IF ~OwnProfile(id, tok)
       THEN Reject(r, "put", tok, id, 403, "You can only update your own profile")
       ELSE Arrive(r, [op |-> "put", pc |-> "findProfile", tok |-> tok, target |-> id,
                       body |-> body])
  /\ UNCHANGED <<users, nextUid, tokens, profiles, nextPid, enrollments, enrollReplies>>

\* TeacherProfile.findOne({ userId: teacherId }), then the construction or the merge
PutFindProfile(r) ==
  /\ req[r].op = "put" /\ req[r].pc = "findProfile"
  /\ LET found == ProfilesOf(req[r].target)
         loaded == IF found = {} THEN Null ELSE First(found)
         doc == IF found = {} THEN PutCreate(req[r].target, req[r].body)
                ELSE PutMerge(loaded, req[r].body)
     IN Goto(r, "save", [loaded |-> loaded, doc |-> doc])
  /\ UNCHANGED <<users, nextUid, tokens, profiles, nextPid, enrollments, enrollReplies, ops>>

PutSave(r) ==
  /\ req[r].op = "put" /\ req[r].pc = "save"
  /\ SaveProfile(r)

\* ------------------------------------------------------- POST /api/register
\* no index on the email
DuplicateEmailMutantNoIndex(email, id) == FALSE

\* the unique index on User.email
DuplicateEmail(email, id) == \E u \in users : u.email = email /\ u.id # id

RegisterAs(roles) == {[email |-> Str(e), name |-> Str(NameOf(e)), role |-> Str(ro),
                       password |-> Str(FirstPassword)] : e \in Emails, ro \in roles}
RegisterArgs == RegisterAs(Roles)

RegisterStart(r, args) ==
  /\ \E arg \in args :
       IF ~Truthy(arg.email) \/ ~Truthy(arg.password) \/ ~Truthy(arg.name) \/ ~Truthy(arg.role)
       THEN Reject(r, "register", NoToken, 0, 400, "All fields are required")
       ELSE Arrive(r, [op |-> "register", pc |-> "findUser", arg |-> arg])
  /\ UNCHANGED <<users, nextUid, tokens, profiles, nextPid, enrollments, enrollReplies>>

\* User.findOne({ email })
RegisterFindUser(r) ==
  /\ req[r].op = "register" /\ req[r].pc = "findUser"
  /\ IF \E u \in users : u.email = req[r].arg.email.s
     THEN Respond(r, 400, "User already exists")
     ELSE Goto(r, "save", [user |-> Null])
  /\ UNCHANGED <<users, nextUid, tokens, profiles, nextPid, enrollments, enrollReplies, ops>>

\* user.save(), then jwt.sign of the new account's id and role
RegisterSave(r) ==
  /\ req[r].op = "register" /\ req[r].pc = "save"
  /\ nextUid <= MaxUsers
  /\ LET a == req[r].arg
     IN IF DuplicateEmail(a.email.s, nextUid)
        THEN /\ UNCHANGED <<users, nextUid, tokens>>
             /\ Respond(r, 500, "E11000")
        ELSE /\ users' = users \cup
                  {[id |-> nextUid, email |-> a.email.s, name |-> a.name.s, role |-> a.role.s,
                    password |-> a.password.s]}
             /\ nextUid' = nextUid + 1
             /\ tokens' = tokens \cup {[userId |-> nextUid, role |-> a.role.s]}
             /\ Respond(r, 201, "User registered successfully")
  /\ UNCHANGED <<profiles, nextPid, enrollments, enrollReplies, ops>>

\* --------------------------------------------------- POST /api/setup-admin
SetupArgs == {[NoArg EXCEPT !.email = Str(e), !.name = Str(NameOf(e)),
                            !.password = Str(FirstPassword)] : e \in Emails}
               \cup {NoArg}

SetupAdminStart(r) ==
  /\ \E arg \in SetupArgs : Arrive(r, [op |-> "setupAdmin", pc |-> "findAdmin", arg |-> arg])
  /\ UNCHANGED <<users, nextUid, tokens, profiles, nextPid, enrollments, enrollReplies>>

\* User.findOne({ role: 'admin' })
AdminExists == \E u \in users : u.role = "admin"

\* the check for an admin, then the check of req.body
SetupAdminFindAdmin(r) ==
  /\ req[r].op = "setupAdmin" /\ req[r].pc = "findAdmin"
  /\ LET a == req[r].arg
     IN IF AdminExists
        THEN Respond(r, 403, "Admin already exists")
        ELSE IF ~Truthy(a.email) \/ ~Truthy(a.password) \/ ~Truthy(a.name)
        THEN Respond(r, 400, "All fields are required")
        ELSE Goto(r, "save", [user |-> Null])
  /\ UNCHANGED <<users, nextUid, tokens, profiles, nextPid, enrollments, enrollReplies, ops>>

\* admin.save(), then jwt.sign of the new account's id and role
SetupAdminSave(r) ==
  /\ req[r].op = "setupAdmin" /\ req[r].pc = "save"
  /\ nextUid <= MaxUsers
  /\ LET a == req[r].arg
     IN IF DuplicateEmail(a.email.s, nextUid)
        THEN /\ UNCHANGED <<users, nextUid, tokens>>
             /\ Respond(r, 500, "E11000")
        ELSE /\ users' = users \cup
                  {[id |-> nextUid, email |-> a.email.s, name |-> a.name.s, role |-> "admin",
                    password |-> a.password.s]}
             /\ nextUid' = nextUid + 1
             /\ tokens' = tokens \cup {[userId |-> nextUid, role |-> "admin"]}
             /\ Respond(r, 201, "Admin created successfully")
  /\ UNCHANGED <<profiles, nextPid, enrollments, enrollReplies, ops>>

\* ---------------------------------------------------------- POST /api/login
\* User.findOne({ email }), comparePassword, jwt.sign of the account's current role
Login ==
  /\ \E u \in users :
       /\ [userId |-> u.id, role |-> u.role] \notin tokens
       /\ tokens' = tokens \cup {[userId |-> u.id, role |-> u.role]}
  /\ UNCHANGED <<users, nextUid, profiles, nextPid, enrollments, enrollReplies, req, ops>>

\* ------------------------------------------------- PUT /api/users/:userId
RoleArgs == {[NoArg EXCEPT !.role = Str(ro)] : ro \in Roles}
EmailArgs == {[NoArg EXCEPT !.email = Str(e)] : e \in Emails}
UpdateArgs == RoleArgs \cup EmailArgs

\* authenticateToken, isAdmin
UpdateUserStart(r, args) ==
  /\ \E tok \in tokens, id \in UserIds, arg \in args :
       IF ~IsAdmin(tok)
       THEN Reject(r, "updateUser", tok, id, 403, "Admin access required")
       ELSE Arrive(r, [op |-> "updateUser", pc |-> "findUser", tok |-> tok, target |-> id,
                       arg |-> arg])
  /\ UNCHANGED <<users, nextUid, tokens, profiles, nextPid, enrollments, enrollReplies>>

\* User.findById(userId), then user.f = f || user.f
UpdateUserFindUser(r) ==
  /\ req[r].op = "updateUser" /\ req[r].pc = "findUser"
  /\ IF UserById(req[r].target) = {}
     THEN Respond(r, 404, "User not found")
     ELSE LET u == CHOOSE u \in UserById(req[r].target) : TRUE
              a == req[r].arg
          IN Goto(r, "save",
                  [loaded |-> u,
                   user |-> [id |-> u.id,
                             name |-> Or(a.name, Str(u.name)).s,
                             email |-> Or(a.email, Str(u.email)).s,
                             role |-> Or(a.role, Str(u.role)).s,
                             password |-> u.password]])
  /\ UNCHANGED <<users, nextUid, tokens, profiles, nextPid, enrollments, enrollReplies, ops>>

\* user.save(): a $set of the modified paths on the document with that _id
UpdateUserSave(r) ==
  /\ req[r].op = "updateUser" /\ req[r].pc = "save"
  /\ LET u == req[r].user
         l == req[r].loaded
     IN IF UserById(u.id) = {}
        THEN /\ UNCHANGED users
             /\ Respond(r, 500, "DocumentNotFoundError")
        ELSE IF u.email # l.email /\ DuplicateEmail(u.email, u.id)
        THEN /\ UNCHANGED users
             /\ Respond(r, 500, "E11000")
        ELSE /\ users' = {IF s.id = u.id
                          THEN [f \in DOMAIN s |-> IF u[f] # l[f] THEN u[f] ELSE s[f]]
                          ELSE s : s \in users}
             /\ Respond(r, 200, "")
  /\ UNCHANGED <<nextUid, tokens, profiles, nextPid, enrollments, enrollReplies, ops>>

\* user.save() on a loaded account: a $set of the modified paths on the document with
\* that _id; DocumentNotFoundError when the account is gone
UserSave(r, msg) ==
  /\ LET u == req[r].user
         l == req[r].loaded
     IN IF UserById(u.id) = {}
        THEN /\ UNCHANGED users
             /\ Respond(r, 500, "DocumentNotFoundError")
        ELSE /\ users' = {IF s.id = u.id
                          THEN [f \in DOMAIN s |-> IF u[f] # l[f] THEN u[f] ELSE s[f]]
                          ELSE s : s \in users}
             /\ Respond(r, 200, msg)
  /\ UNCHANGED <<nextUid, tokens, profiles, nextPid, enrollments, enrollReplies, ops>>

\* ----------------------------------------------------------- GET /api/users
\* authenticateToken, isAdmin
ListUsersStart(r) ==
  /\ \E tok \in tokens :
       IF ~IsAdmin(tok)
       THEN Reject(r, "listUsers", tok, 0, 403, "Admin access required")
       ELSE Arrive(r, [op |-> "listUsers", pc |-> "find", tok |-> tok])
  /\ UNCHANGED <<users, nextUid, tokens, profiles, nextPid, enrollments, enrollReplies>>

\* User.find().select('-__v'), res.json(users)
ListUsersFind(r) ==
  /\ req[r].op = "listUsers" /\ req[r].pc = "find"
  /\ Respond(r, 200, "")
  /\ UNCHANGED <<users, nextUid, tokens, profiles, nextPid, enrollments, enrollReplies, ops>>

\* ------------------------------------ PUT /api/users/:userId/reset-password
ResetArgs == {[NoArg EXCEPT !.password = Str(p)] : p \in ResetPasswords} \cup {NoArg}

\* authenticateToken, isAdmin, then the check of req.body.password
ResetPasswordStart(r) ==
  /\ \E tok \in tokens, id \in UserIds, arg \in ResetArgs :
       IF ~IsAdmin(tok)
       THEN Reject(r, "resetPassword", tok, id, 403, "Admin access required")
       ELSE IF ~Truthy(arg.password)
       THEN Reject(r, "resetPassword", tok, id, 400, "Password is required")
       ELSE Arrive(r, [op |-> "resetPassword", pc |-> "findUser", tok |-> tok,
                       target |-> id, arg |-> arg])
  /\ UNCHANGED <<users, nextUid, tokens, profiles, nextPid, enrollments, enrollReplies>>

\* User.findById(userId), then user.password = password
ResetPasswordFindUser(r) ==
  /\ req[r].op = "resetPassword" /\ req[r].pc = "findUser"
  /\ IF UserById(req[r].target) = {}
     THEN Respond(r, 404, "User not found")
     ELSE LET u == CHOOSE u \in UserById(req[r].target) : TRUE
          IN Goto(r, "save", [loaded |-> u,
                              user |-> [u EXCEPT !.password = req[r].arg.password.s]])
  /\ UNCHANGED <<users, nextUid, tokens, profiles, nextPid, enrollments, enrollReplies, ops>>

ResetPasswordSave(r) ==
  /\ req[r].op = "resetPassword" /\ req[r].pc = "save"
  /\ UserSave(r, "Password reset successfully")

\* ------------------------------------------- PUT /api/users/:userId/promote
\* authenticateToken, isAdmin
PromoteStart(r) ==
  /\ \E tok \in tokens, id \in UserIds :
       IF ~IsAdmin(tok)
       THEN Reject(r, "promote", tok, id, 403, "Admin access required")
       ELSE Arrive(r, [op |-> "promote", pc |-> "findUser", tok |-> tok, target |-> id])
  /\ UNCHANGED <<users, nextUid, tokens, profiles, nextPid, enrollments, enrollReplies>>

\* User.findById(userId), the check of the current role, then user.role = 'admin'
PromoteFindUser(r) ==
  /\ req[r].op = "promote" /\ req[r].pc = "findUser"
  /\ IF UserById(req[r].target) = {}
     THEN Respond(r, 404, "User not found")
     ELSE LET u == CHOOSE u \in UserById(req[r].target) : TRUE
          IN IF u.role = "admin"
             THEN Respond(r, 400, "User is already an admin")
             ELSE Goto(r, "save", [loaded |-> u, user |-> [u EXCEPT !.role = "admin"]])
  /\ UNCHANGED <<users, nextUid, tokens, profiles, nextPid, enrollments, enrollReplies, ops>>

PromoteSave(r) ==
  /\ req[r].op = "promote" /\ req[r].pc = "save"
  /\ UserSave(r, "User promoted to admin successfully")

\* -------------------------------------------- PUT /api/users/:userId/demote
\* authenticateToken, isAdmin, then the self-demotion check
DemoteStart(r) ==
  /\ \E tok \in tokens, id \in UserIds :
       IF ~IsAdmin(tok)
       THEN Reject(r, "demote", tok, id, 403, "Admin access required")
       ELSE IF id = tok.userId
       THEN Reject(r, "demote", tok, id, 403, "Cannot demote yourself")
       ELSE Arrive(r, [op |-> "demote", pc |-> "findUser", tok |-> tok, target |-> id])
  /\ UNCHANGED <<users, nextUid, tokens, profiles, nextPid, enrollments, enrollReplies>>

\* User.findById(userId), the check of the current role, then user.role = 'teacher'
DemoteFindUser(r) ==
  /\ req[r].op = "demote" /\ req[r].pc = "findUser"
  /\ IF UserById(req[r].target) = {}
     THEN Respond(r, 404, "User not found")
     ELSE LET u == CHOOSE u \in UserById(req[r].target) : TRUE
          IN IF u.role # "admin"
             THEN Respond(r, 400, "User is not an admin")
             ELSE Goto(r, "save", [loaded |-> u, user |-> [u EXCEPT !.role = "teacher"]])
  /\ UNCHANGED <<users, nextUid, tokens, profiles, nextPid, enrollments, enrollReplies, ops>>

DemoteSave(r) ==
  /\ req[r].op = "demote" /\ req[r].pc = "save"
  /\ UserSave(r, "Admin demoted to teacher successfully")

\* ---------------------------------------------- DELETE /api/users/:userId
DeleteUserStart(r) ==
  /\ \E tok \in tokens, id \in UserIds :
       IF ~IsAdmin(tok)
       THEN Reject(r, "deleteUser", tok, id, 403, "Admin access required")
       ELSE Arrive(r, [op |-> "deleteUser", pc |-> "findUser", tok |-> tok, target |-> id])
  /\ UNCHANGED <<users, nextUid, tokens, profiles, nextPid, enrollments, enrollReplies>>

\* User.findById(userId)
DeleteUserFindUser(r) ==
  /\ req[r].op = "deleteUser" /\ req[r].pc = "findUser"
  /\ IF UserById(req[r].target) = {}
     THEN Respond(r, 404, "User not found")
     ELSE Goto(r, "deleteUser", [user |-> CHOOSE u \in UserById(req[r].target) : TRUE])
  /\ UNCHANGED <<users, nextUid, tokens, profiles, nextPid, enrollments, enrollReplies, ops>>

\* User.findByIdAndDelete(userId); the role tested is the one read by findById
DeleteUserDelete(r) ==
  /\ req[r].op = "deleteUser" /\ req[r].pc = "deleteUser"
  /\ users' = users \ UserById(req[r].target)
  /\ IF req[r].user.role = "teacher"
     THEN Goto(r, "deleteProfile", [user |-> Null])
     ELSE Respond(r, 200, "User deleted successfully")
  /\ UNCHANGED <<nextUid, tokens, profiles, nextPid, enrollments, enrollReplies, ops>>

\* the account's profile is left in place
DeleteUserProfileMutantKeep(r) ==
  /\ req[r].op = "deleteUser" /\ req[r].pc = "deleteProfile"
  /\ Respond(r, 200, "User deleted successfully")
  /\ UNCHANGED <<users, nextUid, tokens, profiles, nextPid, enrollments, enrollReplies, ops>>

\* TeacherProfile.findOneAndDelete({ userId })
DeleteUserProfile(r) ==
  /\ req[r].op = "deleteUser" /\ req[r].pc = "deleteProfile"
  /\ profiles' = IF ProfilesOf(req[r].target) = {} THEN profiles
                 ELSE profiles \ {First(ProfilesOf(req[r].target))}
  /\ Respond(r, 200, "User deleted successfully")
  /\ UNCHANGED <<users, nextUid, tokens, nextPid, enrollments, enrollReplies, ops>>

\* --------------------------------------------------- POST /api/enrollments
\* no index: nothing is a duplicate
DuplicateEnrollmentMutantNoIndex(userId, courseId) == FALSE

\* the compound unique index on Enrollment (userId, courseId)
DuplicateEnrollment(userId, courseId) ==
  \E i \in 1 .. Len(enrollments) :
    enrollments[i].userId = userId /\ enrollments[i].courseId = courseId

\* authenticateToken, new Enrollment({ userId: req.user.userId, courseId })
EnrollStart(r) ==
  /\ \E tok \in tokens, c \in CourseIds :
       Arrive(r, [op |-> "enroll", pc |-> "save", tok |-> tok, target |-> c])
  /\ UNCHANGED <<users, nextUid, tokens, profiles, nextPid, enrollments, enrollReplies>>

\* enrollment.save(): 201, or 400 on the duplicate key error
EnrollSave(r) ==
  /\ req[r].op = "enroll" /\ req[r].pc = "save"
  /\ LET u == req[r].tok.userId
         c == req[r].target
     IN IF DuplicateEnrollment(u, c)
        THEN /\ UNCHANGED enrollments
             /\ enrollReplies' = Append(enrollReplies,
                   [userId |-> u, courseId |-> c, status |-> 400])
             /\ Respond(r, 400, "Already enrolled in this course")
        ELSE /\ enrollments' = Append(enrollments,
                   [userId |-> u, courseId |-> c, status |-> "active", progress |-> 0])
             /\ enrollReplies' = Append(enrollReplies,
                   [userId |-> u, courseId |-> c, status |-> 201])
             /\ Respond(r, 201, "")
  /\ UNCHANGED <<users, nextUid, tokens, profiles, nextPid, ops>>

\* --------------------------------------------------------- specifications
\* payloads of the profile writes in the account life cycle
LifeBodies == {NoBody, Body([teacherName |-> Str("Ann T"), email |-> Str("t@edu.net")])}

Init ==
  /\ users = {}
  /\ nextUid = 1
  /\ tokens = {}
  /\ profiles = {}
  /\ nextPid = 1
  /\ enrollments = <<>>
  /\ enrollReplies = <<>>
  /\ req = [r \in Reqs |-> Idle]
  /\ ops = 0

Next ==
  \/ Login
  \/ \E r \in Reqs :
       \/ RegisterStart(r, RegisterArgs) \/ RegisterFindUser(r) \/ RegisterSave(r)
       \/ GetOneStart(r) \/ GetOneFindUser(r) \/ GetOneFindProfile(r) \/ GetOneSave(r)
       \/ GetListStart(r) \/ GetListFindTeachers(r) \/ GetListFindProfiles(r)
       \/ GetListInsertMany(r)
       \/ PostStart(r, LifeBodies) \/ PostFindUser(r) \/ PostFindProfile(r) \/ PostSave(r)
       \/ PutStart(r, LifeBodies) \/ PutFindProfile(r) \/ PutSave(r)
       \/ UpdateUserStart(r, UpdateArgs) \/ UpdateUserFindUser(r) \/ UpdateUserSave(r)
       \/ DeleteUserStart(r) \/ DeleteUserFindUser(r) \/ DeleteUserDelete(r)
       \/ DeleteUserProfile(r)

Spec == Init /\ [][Next]_vars

\* The account collection after k successful registrations, and the tokens they
\* returned: the accounts the profile and enrollment handlers are called on.
Registered(k, role) ==
  /\ users = {[id |-> i, email |-> EmailList[i], name |-> NameList[i], role |-> role[i],
                 password |-> FirstPassword] : i \in 1 .. k}
  /\ nextUid = k + 1
  /\ tokens = {[userId |-> i, role |-> role[i]] : i \in 1 .. k}

\* Teacher profiles: reads, writes and account deletion on registered accounts
InitProfiles ==
  /\ \E k \in {MaxUsers - 1, MaxUsers} : \E role \in [1 .. k -> Roles] :
       role[1] = "teacher" /\ Registered(k, role)
  /\ profiles = {}
  /\ nextPid = 1
  /\ enrollments = <<>>
  /\ enrollReplies = <<>>
  /\ req = [r \in Reqs |-> Idle]
  /\ ops = nextUid - 1

NextProfiles ==
  \E r \in Reqs :
    \/ GetOneStart(r) \/ GetOneFindUser(r) \/ GetOneFindProfile(r) \/ GetOneSave(r)
    \/ GetListStart(r) \/ GetListFindTeachers(r) \/ GetListFindProfiles(r)
    \/ GetListInsertMany(r)
    \/ PostStart(r, LifeBodies) \/ PostFindUser(r) \/ PostFindProfile(r) \/ PostSave(r)
    \/ PutStart(r, LifeBodies) \/ PutFindProfile(r) \/ PutSave(r)
    \/ DeleteUserStart(r) \/ DeleteUserFindUser(r) \/ DeleteUserDelete(r)
    \/ DeleteUserProfile(r)

SpecProfiles == InitProfiles /\ [][NextProfiles]_vars

\* Enrollment: requests of registered accounts
InitEnroll ==
  /\ \E k \in 1 .. MaxUsers : Registered(k, [i \in 1 .. k |-> "student"])
  /\ profiles = {}
  /\ nextPid = 1
  /\ enrollments = <<>>
  /\ enrollReplies = <<>>
  /\ req = [r \in Reqs |-> Idle]
  /\ ops = nextUid - 1

NextEnroll == \E r \in Reqs : EnrollStart(r) \/ EnrollSave(r)

SpecEnroll == InitEnroll /\ [][NextEnroll]_vars

\* Merge-update: writes to the profile a teacher's first POST has stored (the
\* registration and that POST are the two requests received so far)
SeedBodies ==
  {Body([bio |-> Str("old"), specialization |-> Str("S"), experience |-> Num(3),
         education |-> Str("E"), avatar |-> Str("A"), certifications |-> Arr(<<"c1">>),
         expertise |-> Arr(<<"x1">>),
         socialLinks |-> Obj([linkedin |-> Str("L1"), github |-> Str("G1"),
                              twitter |-> Str("T1")])])}

MergeBodies ==
  {NoBody,
   Body([bio |-> Str("X")]),
   Body([specialization |-> Str("S2"), experience |-> Num(5)]),
   Body([socialLinks |-> Obj([linkedin |-> Str("L2")])]),
   Body([socialLinks |-> Obj([github |-> Str("G2"), website |-> Str("W2")]),
         certifications |-> Arr(<<"c2">>)]),
   Body([teacherName |-> Str("Ann T"), email |-> Str("t@edu.net"), education |-> Str("E2"),
         avatar |-> Str("A2"), expertise |-> Arr(<<"x2">>)])}

InitMerge ==
  /\ Registered(1, [i \in {1} |-> "teacher"])
  /\ \E seed \in SeedBodies :
       LET owner == CHOOSE u \in users : u.id = 1
       IN profiles = {[PostCreate(owner, seed) EXCEPT !.isNew = FALSE, !.id = 1]}
  /\ nextPid = 2
  /\ enrollments = <<>>
  /\ enrollReplies = <<>>
  /\ req = [r \in Reqs |-> Idle]
  /\ ops = 2

NextMerge ==
  \E r \in Reqs :
    \/ PostStart(r, MergeBodies) \/ PostFindUser(r) \/ PostFindProfile(r) \/ PostSave(r)
    \/ PutStart(r, MergeBodies) \/ PutFindProfile(r) \/ PutSave(r)

SpecMerge == InitMerge /\ [][NextMerge]_vars

\* Accounts: registration, the first-admin setup and the admin update of an account's
\* email, after a first student has registered
InitAccounts ==
  /\ Registered(1, [i \in {1} |-> "student"])
  /\ profiles = {}
  /\ nextPid = 1
  /\ enrollments = <<>>
  /\ enrollReplies = <<>>
  /\ req = [r \in Reqs |-> Idle]
  /\ ops = 1

NextAccounts ==
  \E r \in Reqs :
    \/ RegisterStart(r, RegisterAs({"student", "admin"})) \/ RegisterFindUser(r)
    \/ RegisterSave(r)
    \/ SetupAdminStart(r) \/ SetupAdminFindAdmin(r) \/ SetupAdminSave(r)
    \/ UpdateUserStart(r, EmailArgs) \/ UpdateUserFindUser(r) \/ UpdateUserSave(r)

SpecAccounts == InitAccounts /\ [][NextAccounts]_vars

\* Falsy payload values: merge-updates of the stored profile with payloads that carry
\* '', 0, '0' and []
FalsyBodies ==
  {NoBody,
   Body([bio |-> Str(""), experience |-> Num(0), avatar |-> Str("A9")]),
   Body([experience |-> Str("0")]),
   Body([teacherName |-> Str(""), email |-> Str(""), socialLinks |-> Str("")]),
   Body([education |-> Str(""), certifications |-> Arr(<<>>)])}

NextFalsy ==
  \E r \in Reqs :
    \/ PostStart(r, FalsyBodies) \/ PostFindUser(r) \/ PostFindProfile(r) \/ PostSave(r)
    \/ PutStart(r, FalsyBodies) \/ PutFindProfile(r) \/ PutSave(r)

SpecFalsy == InitMerge /\ [][NextFalsy]_vars

\* First-admin setup: setup-admin and registration requests on an empty account
\* collection
NextSetup ==
  \E r \in Reqs :
    \/ SetupAdminStart(r) \/ SetupAdminFindAdmin(r) \/ SetupAdminSave(r)
    \/ RegisterStart(r, RegisterArgs) \/ RegisterFindUser(r) \/ RegisterSave(r)

SpecSetup == Init /\ [][NextSetup]_vars

\* Role gates: the admin-only and the teacher-only operations called with the tokens of
\* registered accounts (an admin, an account of any role, students beyond), while admins
\* change roles and delete accounts
InitGate ==
  /\ \E role \in [UserIds -> Roles] :
       /\ role[1] = "admin"
       /\ \A i \in UserIds : i > 2 => role[i] = "student"
       /\ Registered(MaxUsers, role)
  /\ profiles = {}
  /\ nextPid = 1
  /\ enrollments = <<>>
  /\ enrollReplies = <<>>
  /\ req = [r \in Reqs |-> Idle]
  /\ ops = nextUid - 1

NextGate ==
  \E r \in Reqs :
       \/ ListUsersStart(r) \/ ListUsersFind(r)
       \/ UpdateUserStart(r, RoleArgs) \/ UpdateUserFindUser(r) \/ UpdateUserSave(r)
       \/ DeleteUserStart(r) \/ DeleteUserFindUser(r) \/ DeleteUserDelete(r)
       \/ DeleteUserProfile(r)
       \/ ResetPasswordStart(r) \/ ResetPasswordFindUser(r) \/ ResetPasswordSave(r)
       \/ PromoteStart(r) \/ PromoteFindUser(r) \/ PromoteSave(r)
       \/ DemoteStart(r) \/ DemoteFindUser(r) \/ DemoteSave(r)
       \/ PostStart(r, LifeBodies) \/ PostFindUser(r) \/ PostFindProfile(r) \/ PostSave(r)
       \/ PutStart(r, LifeBodies) \/ PutFindProfile(r) \/ PutSave(r)

SpecGate == InitGate /\ [][NextGate]_vars

\* ----------------------------------------------------------------- claims
Done(r) == req[r].pc = "done"

\* connection r's handler performs a storage call in this step
Steps(r) == InFlight(r) /\ req'[r].pc # req[r].pc

\* connection r's handler answers in this step
Answers(r) == InFlight(r) /\ req'[r].pc = "done"

ProfileWrites == {"post", "put"}

\* C1: in every reachable state the profile collection holds at most one profile per
\* account reference, whatever the interleaving of the profile reads and writes and of
\* account deletion; a lost provisioning race leaves one stored profile, never two.
C1_OneProfilePerAccount ==
  \A p \in profiles : \A q \in profiles : p.userId = q.userId => p = q

\* two provisioning attempts raced: the loser's insert hit the unique index, and one
\* profile is stored for the account
C1_Witness ==
  \E r \in Reqs :
    /\ Done(r) /\ req[r].op \in ProfileWrites /\ req[r].msg = "E11000"
    /\ Cardinality(ProfilesOf(req[r].tok.userId)) = 1

\* C2: when a list-all-with-backfill call that ran with no concurrent request answers,
\* every account with role teacher has exactly one stored profile.
C2_BackfillCompletes ==
  [][\A r \in Reqs :
       (req[r].op = "getList" /\ req[r].solo /\ Answers(r))
         => \A u \in Teachers' : Cardinality({p \in profiles' : p.userId = u.id}) = 1]_vars

\* C3: fetch-or-create for an existing teacher account that has no profile, run with no
\* concurrent request, stores exactly one profile for it and answers with success.
C3_FetchOrCreateProvisions ==
  [][\A r \in Reqs :
       (/\ req[r].op = "getOne" /\ req[r].pc = "save" /\ req[r].solo /\ Answers(r)
        /\ TeacherLookup(req[r].target) # {}
        /\ ProfilesOf(req[r].target) = {})
         => /\ req'[r].status = 200
            /\ Cardinality({p \in profiles' : p.userId = req[r].target}) = 1]_vars

\* a successful save of a merge-update on the stored profile of connection r's document
MergeSaved(r) ==
  /\ req[r].op \in ProfileWrites /\ req[r].pc = "save" /\ ~req[r].doc.isNew
  /\ Answers(r) /\ req'[r].status = 200

StoredBefore(r) == CHOOSE p \in profiles : p.id = req[r].doc.id
StoredAfter(r) == CHOOSE p \in profiles' : p.id = req[r].doc.id

\* C4: a successful create-or-merge-update (POST or PUT) on an existing profile leaves
\* every profile field that is absent from the payload equal to its stored value; only
\* fields supplied in the payload may change.
C4_AbsentFieldsKept ==
  [][\A r \in Reqs :
       MergeSaved(r)
         => \A f \in DOMAIN StoredBefore(r) :
              (f \notin BodyFields \/ req[r].body[f] = Undef)
                => StoredAfter(r)[f] = StoredBefore(r)[f]]_vars

\* {bio: "X"} has been merged into the profile holding {bio: "old", specialization: "S"}
C4_Witness ==
  /\ \E p \in profiles : p.bio = Str("X") /\ p.specialization = Str("S")
  /\ \E r \in Reqs : Done(r) /\ req[r].op \in ProfileWrites /\ req[r].status = 200

\* C5: a PUT /api/teacherProfiles/:teacherId by an authenticated teacher whose own
\* account id differs from :teacherId is answered 403 at once, and the step that
\* receives it leaves the profile collection unchanged.
C5_ForeignPutForbidden ==
  [][\A r \in Reqs :
       (/\ req'[r] # req[r]
        /\ req'[r].op = "put" /\ req'[r].tok.role = "teacher"
        /\ req'[r].target # req'[r].tok.userId)
         => /\ req'[r].pc = "done" /\ req'[r].status = 403
            /\ profiles' = profiles]_vars

\* a teacher's PUT on another account's id has been refused, the target having a profile
C5_Witness ==
  \E r \in Reqs :
    /\ Done(r) /\ req[r].op = "put" /\ req[r].tok.role = "teacher"
    /\ req[r].target # req[r].tok.userId /\ req[r].status = 403
    /\ ProfilesOf(req[r].target) # {}

\* the answers sent so far, and the records stored, for one (user, course) pair
RepliesFor(u, c) ==
  {i \in 1 .. Len(enrollReplies) :
     enrollReplies[i].userId = u /\ enrollReplies[i].courseId = c}
EnrollmentsFor(u, c) ==
  {i \in 1 .. Len(enrollments) : enrollments[i].userId = u /\ enrollments[i].courseId = c}

\* C6: of the POST /api/enrollments requests of one user for one course, concurrent or
\* not, exactly one is answered 201 and every other one 400, and the collection holds
\* exactly one record for the pair.
C6_OneEnrollmentPerPair ==
  \A u \in UserIds, c \in CourseIds :
    RepliesFor(u, c) # {}
      => /\ Cardinality({i \in RepliesFor(u, c) : enrollReplies[i].status = 201}) = 1
         /\ \A i \in RepliesFor(u, c) : enrollReplies[i].status \in {201, 400}
         /\ Cardinality(EnrollmentsFor(u, c)) = 1

\* the only two requests received were concurrent and for the same pair: one got 201,
\* the other 400
C6_Witness ==
  /\ ops = nextUid + 1
  /\ \E r \in Reqs :
       /\ Done(r) /\ req[r].op = "enroll" /\ req[r].status = 400 /\ ~req[r].solo
       /\ Len(enrollReplies) = 2
       /\ RepliesFor(req[r].tok.userId, req[r].target) = {1, 2}

\* C7: a profile insert that violates the uniqueness constraint on the account reference
\* is answered with the Conflict outcome, HTTP 400, never with 500.
C7_RaceLoserGetsConflict ==
  [][\A r \in Reqs :
       (/\ req[r].op \in {"getOne", "post", "put"} /\ req[r].pc = "save" /\ Answers(r)
        /\ req[r].doc.isNew /\ Validate(req[r].doc)
        /\ ProfilesOf(req[r].doc.userId) # {})
         => req'[r].status = 400]_vars

\* C8: fetch-or-create whose id is not that of an existing account with role teacher
\* answers 404 at the account lookup and leaves the profile collection unchanged.
C8_NonTeacherNotFound ==
  [][\A r \in Reqs :
       (/\ req[r].op = "getOne" /\ req[r].pc = "findUser" /\ Steps(r)
        /\ ~\E u \in users : u.id = req[r].target /\ u.role = "teacher")
         => /\ req'[r].pc = "done" /\ req'[r].status = 404
            /\ profiles' = profiles]_vars

\* fetch-or-create on the id of an existing non-teacher account has answered 404
C8_Witness ==
  \E r \in Reqs :
    /\ Done(r) /\ req[r].op = "getOne" /\ req[r].status = 404
    /\ \E u \in users : u.id = req[r].target /\ u.role # "teacher"

\* C9: in every reachable state every stored profile refers to an existing account
\* whose role is teacher.
C9_ProfilesBelongToTeachers ==
  \A p \in profiles : \E u \in users : u.id = p.userId /\ u.role = "teacher"

\* C10: in a successful merge-update on an existing profile, POST or PUT, each
\* socialLinks sub-field supplied non-empty is overwritten and each sub-field not
\* supplied keeps its stored value, also when other sub-fields are supplied.
C10_LinksMergePerSubField ==
  [][\A r \in Reqs :
       MergeSaved(r)
         => \A k \in LinkFields :
              LET given == OptLink(req[r].body.socialLinks, k)
              IN IF Truthy(given)
                 THEN StoredAfter(r).socialLinks[k] = CastString(given)
                 ELSE StoredAfter(r).socialLinks[k] = StoredBefore(r).socialLinks[k]]_vars

\* the account a profile write acts for: the token's account (POST), :teacherId (PUT)
OwnerOf(r) == IF req[r].op = "put" THEN req[r].target ELSE req[r].tok.userId

\* C11: the first create-or-merge-update, POST or PUT, for an existing teacher account
\* that has no profile, run with no concurrent request and with a payload that omits
\* teacherName and email, stores a profile whose teacherName and email are the owning
\* account's name and email.
C11_FirstWriteDefaultsFromAccount ==
  [][\A r \in Reqs :
       (/\ req[r].op \in ProfileWrites /\ req[r].solo /\ Answers(r)
        /\ req[r].body.teacherName = Undef /\ req[r].body.email = Undef
        /\ UserById(OwnerOf(r)) # {}
        /\ ProfilesOf(OwnerOf(r)) = {})
         => \E u \in UserById(OwnerOf(r)) : \E p \in profiles' :
              /\ p.userId = u.id
              /\ p.teacherName = Str(u.name)
              /\ p.email = Str(u.email)]_vars

\* the document a profile write is about to validate: the one POST has just built or
\* merged when it calls validateSync(), the one PUT hands to save()
ResultingProfile(r) ==
  IF req[r].pc = "save" THEN req[r].doc
  ELSE LET found == ProfilesOf(req[r].tok.userId)
       IN IF found = {} THEN PostCreate(req[r].user, req[r].body)
          ELSE PostMerge(First(found), req[r].body)

\* C12: a create-or-merge-update, POST or PUT, whose resulting profile lacks a required
\* field is answered 400 "Validation error" by the step that validates it, and that
\* step leaves the profile collection unchanged.
C12_InvalidProfileRejected ==
  [][\A r \in Reqs :
       (/\ Steps(r)
        /\ \/ req[r].op = "post" /\ req[r].pc = "findProfile"
           \/ req[r].op = "put" /\ req[r].pc = "save"
        /\ ~Validate(ResultingProfile(r)))
         => /\ req'[r].pc = "done" /\ req'[r].status = 400
            /\ req'[r].msg = "Validation error"
            /\ profiles' = profiles]_vars

\* DELETE /api/users/:userId has completed for account id, which registered as a
\* teacher: the id was issued, the account is gone and no DELETE on it is in flight
DeletedTeacher(id) ==
  /\ id < nextUid /\ UserById(id) = {}
  /\ [userId |-> id, role |-> "teacher"] \in tokens
  /\ \A r \in Reqs : ~(InFlight(r) /\ req[r].op = "deleteUser" /\ req[r].target = id)

\* C13: when DELETE /api/users/:userId completes for an account it found with role
\* teacher, it answers success and no profile of that account is left; and a
\* fetch-or-create on that id handled after the deletion answers 404 and creates no
\* profile.
C13_DeletedTeacherLeavesNoProfile ==
  [][/\ \A r \in Reqs :
          (req[r].op = "deleteUser" /\ req[r].pc = "deleteProfile" /\ Answers(r))
            => /\ req'[r].status = 200
               /\ {p \in profiles' : p.userId = req[r].target} = {}
     /\ \A q \in Reqs :
          (/\ req[q].op = "getOne" /\ req[q].pc = "findUser" /\ Steps(q)
           /\ DeletedTeacher(req[q].target))
            => /\ req'[q].pc = "done" /\ req'[q].status = 404
               /\ profiles' = profiles]_vars

\* a teacher account has been deleted and a fetch-or-create on its id, handled after
\* the deletion, has answered 404; no profile is stored for it
C13_Witness ==
  \E q \in Reqs :
    /\ Done(q) /\ req[q].op = "getOne" /\ req[q].status = 404 /\ req[q].solo
    /\ DeletedTeacher(req[q].target)
    /\ ProfilesOf(req[q].target) = {}

AdminOps == {"listUsers", "updateUser", "deleteUser", "resetPassword", "promote", "demote"}
TeacherOps == {"post", "put"}

\* the role an operation is gated on
RequiredRole(op) == IF op \in AdminOps THEN "admin" ELSE "teacher"

\* connection r receives a request in this step
Arrives(r) ==
  /\ ops' = ops + 1
  /\ ~InFlight(r) /\ \A q \in Reqs : q < r => InFlight(q)

\* the caller's account exists and its role is the given one
HoldsRole(tok, role) == \E u \in users : u.id = tok.userId /\ u.role = role

\* C14 (as claimed): a request to a role-gated operation whose caller's account does
\* not hold the required role when the request is handled (its role was changed, or
\* the account deleted, after the token was issued) is answered 403 and changes no
\* account and no profile.
C14_GateFollowsAccountRole ==
  [][\A r \in Reqs :
       (/\ Arrives(r)
        /\ req'[r].op \in AdminOps \cup TeacherOps
        /\ ~HoldsRole(req'[r].tok, RequiredRole(req'[r].op)))
         => /\ req'[r].pc = "done" /\ req'[r].status = 403
            /\ users' = users /\ profiles' = profiles]_vars

\* C14 (amended): a request to a role-gated operation whose token does not carry the
\* required role is answered 403 and changes no account and no profile; the role
\* tested is the one signed into the token, whatever the account's role is now.
C14_GateFollowsTokenRole ==
  [][\A r \in Reqs :
       (/\ Arrives(r)
        /\ req'[r].op \in AdminOps \cup TeacherOps
        /\ req'[r].tok.role # RequiredRole(req'[r].op))
         => /\ req'[r].pc = "done" /\ req'[r].status = 403
            /\ users' = users /\ profiles' = profiles]_vars

\* an admin-only request has been refused for its token's role although the caller's
\* account has been made admin since the token was issued
C14_Witness ==
  \E r \in Reqs :
    /\ Done(r) /\ req[r].op \in AdminOps /\ req[r].status = 403
    /\ req[r].msg = "Admin access required"
    /\ HoldsRole(req[r].tok, "admin")

\* C15: in every reachable state, after any sequence and interleaving of POST
\* /api/register, POST /api/setup-admin and the admin update PUT /api/users/:userId, no
\* two accounts have the same email.
C15_EmailsUnique ==
  \A u \in users : \A v \in users : u.email = v.email => u = v

\* an admin update that would have given a second account an email in use has been
\* rejected by the unique index
C15_Witness ==
  \E r \in Reqs :
    /\ Done(r) /\ req[r].op = "updateUser" /\ req[r].msg = "E11000"
    /\ Cardinality(users) = 2

\* C16: a POST /api/setup-admin request that answers while an admin account exists is
\* answered 403 and creates no account, so that under any interleaving at most one
\* setup-admin request creates an admin.
C16_SetupAdminOnlyFirst ==
  [][\A r \in Reqs :
       (req[r].op = "setupAdmin" /\ Answers(r) /\ AdminExists)
         => /\ req'[r].status = 403
            /\ users' = users]_vars

\* C17 (as claimed): in a successful merge-update on an existing profile a payload value
\* that is '', the number 0 or the string '0' is treated as not supplied, the stored
\* value of its field is unchanged; so no payload clears a stored non-empty text field
\* to empty or resets experience to zero.
C17_FalsyNotSupplied ==
  [][\A r \in Reqs :
       MergeSaved(r)
         => /\ \A f \in BodyFields :
                 req[r].body[f] \in {Str(""), Num(0), Str("0")}
                   => StoredAfter(r)[f] = StoredBefore(r)[f]
            /\ \A f \in StringFields :
                 StoredAfter(r)[f] = Str("") => StoredBefore(r)[f] = Str("")
            /\ StoredAfter(r).experience = Str("0")
                 => StoredBefore(r).experience = Str("0")]_vars

\* C17 (amended): a payload value that is '' or the number 0 is treated as not supplied,
\* the stored value of its field is unchanged, so no payload clears a stored non-empty
\* top-level text field to empty; the string '0' is a supplied value.
C17_EmptyOrZeroNotSupplied ==
  [][\A r \in Reqs :
       MergeSaved(r)
         => /\ \A f \in BodyFields :
                 req[r].body[f] \in {Str(""), Num(0)}
                   => StoredAfter(r)[f] = StoredBefore(r)[f]
            /\ \A f \in StringFields :
                 StoredAfter(r)[f] = Str("") => StoredBefore(r)[f] = Str("")]_vars

\* {bio: '', experience: 0, avatar: 'A9'} has been merged: the avatar is stored, bio and
\* experience still hold 'old' and '3'
C17_Witness ==
  /\ \E p \in profiles :
       p.avatar = Str("A9") /\ p.bio = Str("old") /\ p.experience = Str("3")
  /\ \E r \in Reqs : Done(r) /\ req[r].op \in ProfileWrites /\ req[r].status = 200
====
